---- MODULE Spec2Model ----
(***************************************************************************)
(* Handwrite OCR plugin: the batch processor (FileProcessor.processBatch), *)
(* the per-file pipeline (processFile, createNote, moveSourceFile) and the *)
(* plugin entry point (HandwritePlugin.processFiles).                      *)
(*                                                                         *)
(* JavaScript is single-threaded and cooperative: the code between two     *)
(* awaits runs atomically.  Every action below is one such segment: it     *)
(* starts where a promise settles (a vault call or the backend call        *)
(* returns or throws) and runs to the next await.                          *)
(*                                                                         *)
(* Spec is the batch.  SpecRender is createNote's way from one extraction  *)
(* result to filename and note content (TemplateRenderer, tag merge).      *)
(* SpecParse is GeminiClient.parseJSONResponse on one reply of the backend. *)
(* SpecCallbacks is processBatch called with callbacks that may throw.     *)
(* SpecHang is the batch where one call of the backend may never settle.   *)
(***************************************************************************)
EXTENDS Integers, Sequences, FiniteSets, TLC

\* ------------------------------------------------------------------ bounds
MaxFiles == 3       \* longest input list
MaxWorkers == 2     \* largest configured concurrentWorkers
MaxClock == 1       \* clock ticks (milliseconds that pass) during one batch
MaxNotices == 2     \* requests answered with the missing-key notice
MaxParts == 5       \* longest reply of the backend, in parts

\* --------------------------------------------------------------- utilities
Min(a, b) == IF a < b THEN a ELSE b
Max(a, b) == IF a > b THEN a ELSE b
Range(s) == {s[i] : i \in 1..Len(s)}

\* String.prototype.toLowerCase on the extensions of the file universe.
toLowerCase(s) ==
    CASE s = "PNG" -> "png"
      [] s = "PDF" -> "pdf"
      [] s = "TXT" -> "txt"
      [] OTHER -> s

\* Characters String.prototype.trim removes.
WhiteSpace == {" ", "\n", "\t"}

RECURSIVE TrimLeft(_)
TrimLeft(s) ==
    IF s = <<>> THEN <<>>
    ELSE IF Head(s) \in WhiteSpace THEN TrimLeft(Tail(s)) ELSE s

RECURSIVE TrimRight(_)
TrimRight(s) ==
    IF s = <<>> THEN <<>>
    ELSE IF s[Len(s)] \in WhiteSpace THEN TrimRight(SubSeq(s, 1, Len(s) - 1)) ELSE s

\* String.prototype.trim; a string is the sequence of its characters.
trim(s) == TrimRight(TrimLeft(s))

\* ------------------------------------------------------------------- files
\* A path is the sequence of its '/'-separated segments.
\* A TFile carries path, name, basename and extension (Obsidian keeps them
\* current: a rename updates the object in place); stem is the basename
\* split at its dots.
TFile(dir, base, ext) ==
    [path |-> <<dir, base \o "." \o ext>>,
     name |-> base \o "." \o ext,
     basename |-> base,
     stem |-> <<base>>,
     extension |-> ext]

\* The files of the vault a batch can be given, in the order of
\* vault.getFiles().  a/x.png and b/x.png share their name; z.TXT is not
\* supported and has an upper-case extension.
FileUniverse ==
    <<TFile("a", "x", "png"), TFile("b", "x", "png"), TFile("a", "z", "TXT")>>

\* Input lists: pairwise distinct files in vault order (getSupportedFiles
\* filters vault.getFiles(); the selector keeps a Set<TFile> filled from it).
FileLists ==
    {[i \in 1..Len(pick) |-> FileUniverse[pick[i]]] :
        pick \in {s \in UNION {[1..n -> 1..Len(FileUniverse)] : n \in 0..MaxFiles} :
                    \A i, j \in 1..Len(s) : i < j => s[i] < s[j]}}

\* ---------------------------------------------------------------- settings
outputFolder == <<"Handwritten Notes">>
processedFilesFolder == <<"Processed Handwritten Files">>

\* `${folder}/${name}` followed by normalizePath.
JoinPath(folder, name) == Append(folder, name)

\* The opening of created notes is followed where the source files are moved
\* as well (the opening leaves vault, queue and outcomes as they are).
Settings ==
    {s \in [geminiApiKey : {"", "key"},
            concurrentWorkers : (-1)..MaxWorkers,
            moveFilesAfterProcessing : BOOLEAN,
            autoOpenCreatedNotes : BOOLEAN] :
        s.autoOpenCreatedNotes => s.moveFilesAfterProcessing}

\* --------------------------------------------------------- pure functions
\* Faulty variant of isSupportedFile: the allow-list is one entry too wide.
isSupportedFile_TooWide(extension) ==
    toLowerCase(extension) \in {"pdf", "png", "jpg", "jpeg", "webp", "gif", "txt"}

\* FileProcessor.isSupportedFile
isSupportedFile(extension) ==
    toLowerCase(extension) \in {"pdf", "png", "jpg", "jpeg", "webp", "gif"}

\* FileProcessor.getRelativePath: the length of the common prefix of the
\* note's folder and the target path (the loop stops at the first mismatch).
RECURSIVE CommonLength(_, _, _)
CommonLength(fromParts, toParts, i) ==
    IF i > Min(Len(fromParts), Len(toParts)) THEN i - 1
    ELSE IF fromParts[i] = toParts[i] THEN CommonLength(fromParts, toParts, i + 1)
    ELSE i - 1

getRelativePath(from, to) ==
    LET fromParts == SubSeq(from, 1, Len(from) - 1)
        toParts == to
        commonLength == CommonLength(fromParts, toParts, 1)
        upCount == Len(fromParts) - commonLength
        downPath == SubSeq(toParts, commonLength + 1, Len(toParts))
        relativeParts == [i \in 1..upCount |-> ".."] \o downPath
    IN  IF relativeParts = <<>> THEN <<".">> ELSE relativeParts

\* TemplateRenderer.generateFilename with the default filename template
\* '{{baseName}}.md'.  createNote passes sourceFile.basename as the original
\* filename; stem is that name split at its dots, and the regex /\.[^.]+$/
\* removes the last dot-suffix when there is one.
generateFilename(stem) ==
    LET baseName == IF Len(stem) > 1 THEN SubSeq(stem, 1, Len(stem) - 1) ELSE stem
        Join[i \in 0..Len(baseName)] ==
            IF i = 0 THEN ""
            ELSE IF i = 1 THEN baseName[1]
            ELSE Join[i - 1] \o "." \o baseName[i]
    IN  Join[Len(baseName)] \o ".md"

\* new Date().toISOString().replace(/[:.]/g, '-') at clock value t.
Timestamp(t) == "T" \o ToString(t)

\* A thrown value: an Error object with its message, or something else
\* (a string, undefined) that has no message property.
Error(msg) == [isError |-> TRUE, message |-> msg]
NonError == [isError |-> FALSE, message |-> "<absent>"]
\* `${error}` / String(error)
ErrorToString(e) == IF e.isError THEN "Error: " \o e.message ELSE "thrown"

\* ProcessingResult {success, filePath?, error?}; an absent field is
\* NoPath / "<absent>".
NoPath == <<>>
Absent == "<absent>"
Success(outputPath) == [success |-> TRUE, filePath |-> outputPath, error |-> Absent]
Failure(msg) == [success |-> FALSE, filePath |-> NoPath, error |-> msg]

\* Faulty variant of processFile's catch block: error.message is used without
\* the instanceof test, so a thrown non-Error leaves the error field absent.
processFileCatch_NoInstanceOf(e) ==
    Failure(IF e.isError THEN e.message ELSE Absent)

\* The catch block of processFile.
processFileCatch(e) ==
    Failure(IF e.isError THEN e.message ELSE "Unknown error")

\* Faulty variant of moveSourceFile's catch block: the error is rethrown as
\* it came, without the message that names the move.
moveSourceFileCatch_Rethrow(e) == e

\* The catch block of moveSourceFile: throw new Error(`Failed to move file: ${error.message}`).
moveSourceFileCatch(e) ==
    Error("Failed to move file: " \o (IF e.isError THEN e.message ELSE "undefined"))

\* The catch blocks of extractStructuredTextFromPDF / ...FromImage.
extractCatch(fileExt, e) ==
    Error((IF fileExt = "pdf" THEN "Failed to process PDF: " ELSE "Failed to process image: ")
          \o ErrorToString(e))

\* What the backend call of one file can come to: the transport rejects,
\* the reply holds no decodable JSON, or the reply decodes to a content.
Replies ==
    {[kind |-> "transport", content |-> <<>>],
     [kind |-> "garbage", content |-> <<>>],
     [kind |-> "json", content |-> <<>>],
     [kind |-> "json", content |-> <<" ", "\n">>],
     [kind |-> "json", content |-> <<"h", "i">>]}

\* ------------------------------------------------------------------- state
VARIABLES
    settings,     \* HandwriteSettings of the run
    files,        \* the TFile objects of the request, in input order (live)
    inputPaths,   \* the paths the files had when the request was made
    modal,        \* ProcessingModal: "none", "open" or "closed"
    isProcessing, \* ProcessingModal.isProcessing
    notices,      \* the Notices shown, in order
    batch,        \* processBatch: "idle", "running", "resolved"
    queue,        \* processBatch.queue (indices into files)
    processing,   \* processBatch.processing.size
    completed,    \* processBatch.completed
    results,      \* processBatch.results: path -> ProcessingResult
    progress,     \* the last BatchProcessingProgress handed to the modal
    wk,           \* per worker: where its current processFile call is suspended
    folders,      \* vault: folders that exist
    others,       \* vault: paths of files that are neither inputs nor notes
    notes,        \* vault: path -> note written there
    calls,        \* per file: the collaborator calls made on its behalf
    threw,        \* per file: the value thrown while processing it, if any
    reply,        \* per file: what its backend call came to, if it was made
    requests,     \* calls of HandwritePlugin.processFiles so far
    now,          \* the clock
    rendering,    \* createNote's rendering of one extraction result, step by step
    invoked,      \* per file: calls of processFile and of the result callback; a callback threw
    parsing       \* parseJSONResponse applied to one reply of the backend

vars == <<settings, files, inputPaths, modal, isProcessing, notices, batch, queue,
          processing, completed, results, progress, wk, folders, others, notes,
          calls, threw, reply, requests, now, rendering, invoked, parsing>>

N == Len(files)
Workers == 1..MaxWorkers

NoThrow == [isError |-> FALSE, message |-> "<none>"]
NoReply == [kind |-> "none", content |-> <<>>]
NoProgress == [current |-> 0, total |-> 0, currentFile |-> Absent]
NoFile == [path |-> NoPath, name |-> "", basename |-> "", stem |-> <<>>, extension |-> ""]
Idle == [pc |-> "none", file |-> 0, content |-> <<>>, out |-> NoPath, mode |-> "-",
         target |-> NoFile, result |-> Failure(Absent)]

NoRendering == [phase |-> "none"]
NoParsing == [phase |-> "none"]
NotInvoked == [processFile |-> 0, resultCallback |-> 0, callbackThrew |-> FALSE]

\* every path the vault resolves (Vault.getAbstractFileByPath)
getAbstractFileByPath(p) ==
    \/ p \in folders
    \/ p \in others
    \/ p \in DOMAIN notes
    \/ \E i \in 1..N : files[i].path = p

Init ==
    /\ settings \in Settings
    /\ files \in FileLists
    /\ inputPaths = [i \in 1..Len(files) |-> files[i].path]
    /\ modal = "none"
    /\ isProcessing = FALSE
    /\ notices = <<>>
    /\ batch = "idle"
    /\ queue = <<>>
    /\ processing = 0
    /\ completed = 0
    /\ results = <<>>
    /\ progress = NoProgress
    /\ wk = [w \in Workers |-> Idle]
    /\ \E outThere \in BOOLEAN, procThere \in BOOLEAN, taken \in BOOLEAN :
          /\ taken => procThere
          /\ folders = {<<"a">>, <<"b">>}
                         \cup (IF outThere THEN {outputFolder} ELSE {})
                         \cup (IF procThere THEN {processedFilesFolder} ELSE {})
          /\ others = IF taken THEN {JoinPath(processedFilesFolder, "x.png")} ELSE {}
    /\ notes = <<>>
    /\ calls = [i \in 1..Len(files) |-> {}]
    /\ threw = [i \in 1..Len(files) |-> NoThrow]
    /\ reply = [i \in 1..Len(files) |-> NoReply]
    /\ requests = 0
    /\ now = 0
    /\ rendering = NoRendering
    /\ invoked = [i \in 1..Len(files) |-> NotInvoked]
    /\ parsing = NoParsing

\* Map.set / the vault's path table
Put(m, k, v) == [x \in DOMAIN m \cup {k} |-> IF x = k THEN v ELSE m[x]]

\* ------------------------------------------------ HandwritePlugin.processFiles
\* The command, the file menu, the folder menu and the file selector all end
\* in processFiles(files).
Origins == {"command", "file-menu", "folder-menu", "selector"}

\* Faulty variant of processFiles: the API-key check is missing.
processFiles_NoKeyCheck(origin) ==
    /\ modal = "none"
    /\ batch = "idle"
    /\ Len(notices) < MaxNotices
    /\ requests' = requests + 1
    /\ \/ /\ N = 0
          /\ notices' = Append(notices, "No supported files selected")
          /\ UNCHANGED modal
       \/ /\ N # 0
          /\ modal' = "open"
          /\ UNCHANGED notices
    /\ UNCHANGED <<parsing, invoked, rendering, settings, reply, files, inputPaths, isProcessing, batch, queue,
                   processing, completed, results, progress, wk, folders, others,
                   notes, calls, threw, now>>

processFiles(origin) ==
    /\ modal = "none"
    /\ batch = "idle"
    /\ Len(notices) < MaxNotices
    /\ requests' = requests + 1
    /\ \/ /\ settings.geminiApiKey = ""
          /\ notices' = Append(notices, "Please set your Gemini API key in the plugin settings")
          /\ UNCHANGED modal
       \/ /\ settings.geminiApiKey # ""
          /\ N = 0
          /\ notices' = Append(notices, "No supported files selected")
          /\ UNCHANGED modal
       \/ /\ settings.geminiApiKey # ""
          /\ N # 0
          /\ modal' = "open"
          /\ UNCHANGED notices
    /\ UNCHANGED <<parsing, invoked, rendering, settings, reply, files, inputPaths, isProcessing, batch, queue,
                   processing, completed, results, progress, wk, folders, others, notes,
                   calls, threw, now>>

\* ------------------------------------------------------ FileProcessor.processFile
\* processFile up to its first await: the extension check, then readBinary.
\* The value is the worker's record once the call is suspended (or returned).
processFileBegin(i) ==
    LET fileExt == toLowerCase(files[i].extension)
    IN  IF ~isSupportedFile(fileExt)
        THEN [Idle EXCEPT !.pc = "returned", !.file = i,
                          !.result = Failure("Unsupported file type: " \o fileExt)]
        ELSE [Idle EXCEPT !.pc = "reading", !.file = i]

\* the collaborator calls processFileBegin makes for file i
processFileBeginCalls(i) ==
    IF isSupportedFile(toLowerCase(files[i].extension)) THEN {"readBinary"} ELSE {}

\* processFile's catch block reached with the thrown value e
Caught(w, e) == [wk[w] EXCEPT !.pc = "returned", !.result = processFileCatch(e)]

\* Faulty variant of the blank-content test: the trim is missing.
noTextExtracted_NoTrim(content) == content = <<>>

\* `!result.content || result.content.trim() === ''`
noTextExtracted(content) == content = <<>> \/ trim(content) = <<>>

\* ------------------------------------------------------ FileProcessor.processBatch
\* Faulty variant of the start loop: one worker per file, whatever the setting.
workersStarted_OnePerFile == N

\* The number of workers the start loop creates:
\* for (let i = 0; i < Math.min(workers, files.length); i++).
workersStarted == Max(0, Min(settings.concurrentWorkers, N))

\* Files dequeued whose outcome is not recorded yet.
InFlight == {w \in Workers : wk[w].pc \notin {"none", "loop", "done", "rejected"}}

\* Faulty variant of queue.shift(): the first element is read and left in place.
shift_Peek(q) == [file |-> Head(q), rest |-> q]

\* Array.prototype.shift on the queue: the first element, and what is left.
shift(q) == [file |-> Head(q), rest |-> Tail(q)]

\* The click handler of "Start Processing" with the synchronous part of
\* processBatch: the queue is filled and each worker, in turn, runs up to
\* its first await (it shifts a file, reports progress, starts processFile).
StartClick ==
    /\ modal = "open"
    /\ \/ /\ isProcessing
          /\ UNCHANGED <<isProcessing, batch, queue, processing, completed, results,
                         progress, wk, calls, invoked>>
       \/ /\ ~isProcessing
          /\ isProcessing' = TRUE
          /\ batch' = "running"
          /\ results' = <<>>
          /\ completed' = 0
          /\ LET k == workersStarted IN
                /\ processing' = k
                /\ queue' = [j \in 1..(N - k) |-> j + k]
                /\ wk' = [w \in Workers |-> IF w <= k THEN processFileBegin(w) ELSE Idle]
                /\ calls' = [i \in 1..N |-> IF i <= k THEN processFileBeginCalls(i) ELSE {}]
                /\ invoked' = [i \in 1..N |->
                                 IF i <= k THEN [invoked[i] EXCEPT !.processFile = @ + 1]
                                 ELSE invoked[i]]
                \* worker i reports completed + processing.size = 0 + (i - 1)
                /\ progress' = IF k = 0 THEN progress
                               ELSE [current |-> k - 1, total |-> N,
                                     currentFile |-> files[k].name]
    /\ UNCHANGED <<parsing, rendering, settings, requests, reply, files, inputPaths, modal, notices,
                   folders, others, notes, threw, now>>

\* The click handler of "Cancel" / "Close": Modal.close(), and onClose empties
\* the content element (the buttons are gone with it).  Nothing of the batch
\* is touched.
CancelClick ==
    /\ modal = "open"
    /\ modal' = "closed"
    /\ UNCHANGED <<parsing, invoked, rendering, settings, requests, reply, files, inputPaths,
                   isProcessing, notices, batch, queue, processing, completed, results,
                   progress, wk, folders, others, notes, calls, threw, now>>

\* ------------------------------------------------------ FileProcessor.createNote
\* The template data createNote renders into the note of file i: the source
\* path is the present path, or the path the file is expected to have once
\* moved; the link is written for that path.
futureSourcePath(i) ==
    IF settings.moveFilesAfterProcessing
    THEN JoinPath(processedFilesFolder, files[i].name)
    ELSE files[i].path

markdownLink(i, outputPath) ==
    IF settings.moveFilesAfterProcessing
    THEN [generated |-> FALSE,
          target |-> getRelativePath(outputPath, futureSourcePath(i)),
          alias |-> files[i].basename]
    ELSE \* FileManager.generateMarkdownLink(sourceFile, outputPath)
         [generated |-> TRUE, target |-> files[i].path, alias |-> files[i].basename]

templateData(i, content, outputPath) ==
    [of |-> i,
     content |-> content,
     filename |-> files[i].basename,
     absoluteFilePath |-> futureSourcePath(i),
     markdownLink |-> markdownLink(i, outputPath)]

\* createNote after the folder step: the existence check on the output path
\* and the write call (vault.process on an existing file, else vault.create).
createNoteWrite(w, content) ==
    LET outputPath == JoinPath(outputFolder, generateFilename(files[wk[w].file].stem))
    IN  [wk[w] EXCEPT !.pc = "writing", !.content = content, !.out = outputPath,
                      !.mode = IF outputPath \in DOMAIN notes THEN "process" ELSE "create"]

\* createNote from its start to its first await: the filename is generated,
\* then the output folder is looked up and created when it is missing.
createNoteBegin(w, content) ==
    IF ~getAbstractFileByPath(outputFolder)
    THEN [wk[w] EXCEPT !.pc = "mkOut", !.content = content]
    ELSE createNoteWrite(w, content)

\* the collaborator call createNoteBegin makes
createNoteBeginCalls ==
    IF ~getAbstractFileByPath(outputFolder) THEN {"createFolder"} ELSE {"write"}

\* Faulty variant of the end of createNote: the note is never opened.
createNoteEndCalls_NoOpen == {}

\* The end of createNote, after the write has returned: with
\* autoOpenCreatedNotes the created file is looked up and its opening is
\* requested (workspace.getLeaf(true).openFile, not awaited); then createNote
\* returns the output path.
createNoteEndCalls ==
    IF settings.autoOpenCreatedNotes THEN {"openFile"} ELSE {}

\* --------------------------------------------------- FileProcessor.moveSourceFile
\* moveSourceFile after the folder step: the destination is looked up; when
\* something is there the name gets a timestamp; then renameFile is called.
\* target is the TFile as it will be once the rename has been carried out.
moveSourceFileRename(w) ==
    LET file == files[wk[w].file]
        newPath == JoinPath(processedFilesFolder, file.name)
        uniqueBase == file.basename \o "_" \o Timestamp(now)
        uniquePath == JoinPath(processedFilesFolder, uniqueBase \o "." \o file.extension)
    IN  [wk[w] EXCEPT !.pc = "renaming",
                      !.target = IF getAbstractFileByPath(newPath)
                                 THEN [file EXCEPT !.path = uniquePath,
                                                   !.name = uniqueBase \o "." \o file.extension,
                                                   !.basename = uniqueBase,
                                                   !.stem = <<uniqueBase>>]
                                 ELSE [file EXCEPT !.path = newPath]]

\* moveSourceFile from its start to its first await.
moveSourceFileBegin(w) ==
    IF ~getAbstractFileByPath(processedFilesFolder)
    THEN [wk[w] EXCEPT !.pc = "mkProc"]
    ELSE moveSourceFileRename(w)

\* the collaborator call moveSourceFileBegin makes
moveSourceFileBeginCalls ==
    IF ~getAbstractFileByPath(processedFilesFolder)
    THEN {"createFolder(processed)"}
    ELSE {"renameFile"}

\* ------------------------------------------------------------ await completions
Throws(w, e) ==
    /\ wk' = [wk EXCEPT ![w] = Caught(w, e)]
    /\ threw' = [threw EXCEPT ![wk[w].file] = e]

\* vault.readBinary settles; on success the backend call is made.
ReadDone(w) ==
    /\ wk[w].pc = "reading"
    /\ \/ /\ wk' = [wk EXCEPT ![w].pc = "extracting"]
          /\ calls' = [calls EXCEPT ![wk[w].file] = @ \cup {"generateContent"}]
          /\ UNCHANGED threw
       \/ /\ \E e \in {Error("read failed"), NonError} : Throws(w, e)
          /\ UNCHANGED calls
    /\ UNCHANGED <<parsing, invoked, rendering, settings, requests, reply, files, inputPaths, modal, isProcessing,
                   notices, batch, queue, processing, completed, results, progress,
                   folders, others, notes, now>>

\* generateContent settles: the transport rejects, or parseJSONResponse throws,
\* or a StructuredResponse comes back; blank content is a failed outcome,
\* anything else goes to createNote.
BackendDone(w) ==
    /\ wk[w].pc = "extracting"
    /\ LET i == wk[w].file
           fileExt == toLowerCase(files[i].extension)
       IN \E r \in Replies :
          /\ reply' = [reply EXCEPT ![i] = r]
          /\ \/ /\ r.kind = "transport"
                /\ Throws(w, extractCatch(fileExt, Error("fetch failed")))
                /\ UNCHANGED calls
             \/ /\ r.kind = "garbage"
                /\ Throws(w, extractCatch(fileExt, Error("Unexpected token in JSON")))
                /\ UNCHANGED calls
             \/ /\ r.kind = "json"
                /\ noTextExtracted(r.content)
                /\ wk' = [wk EXCEPT ![w].pc = "returned",
                                    ![w].result = Failure("No text extracted from file")]
                /\ UNCHANGED <<calls, threw>>
             \/ /\ r.kind = "json"
                /\ ~noTextExtracted(r.content)
                /\ wk' = [wk EXCEPT ![w] = createNoteBegin(w, r.content)]
                /\ calls' = [calls EXCEPT ![i] = @ \cup createNoteBeginCalls]
                /\ UNCHANGED threw
    /\ UNCHANGED <<parsing, invoked, rendering, settings, requests, files, inputPaths, modal, isProcessing, notices,
                   batch, queue, processing, completed, results, progress, folders, others,
                   notes, now>>

\* vault.createFolder(outputFolder) settles.  When another worker created the
\* folder in the meantime the call may throw 'Folder already exists.'.
MkOutDone(w) ==
    /\ wk[w].pc = "mkOut"
    /\ \/ /\ outputFolder \in folders
          /\ Throws(w, Error("Folder already exists."))
          /\ UNCHANGED <<calls, folders>>
       \/ /\ folders' = folders \cup {outputFolder}
          /\ wk' = [wk EXCEPT ![w] = createNoteWrite(w, wk[w].content)]
          /\ calls' = [calls EXCEPT ![wk[w].file] = @ \cup {"write"}]
          /\ UNCHANGED threw
    /\ UNCHANGED <<parsing, invoked, rendering, settings, requests, reply, files, inputPaths, modal, isProcessing,
                   notices, batch, queue, processing, completed, results, progress, others,
                   notes, now>>

\* vault.create / vault.process settles.  A create whose path was taken in
\* the meantime may throw 'File already exists.' or replace the file.  After
\* the write createNote returns and processFile goes on to moveSourceFile.
WriteDone(w) ==
    /\ wk[w].pc = "writing"
    /\ LET i == wk[w].file IN
       \/ /\ Throws(w, Error("write failed"))
          /\ UNCHANGED <<calls, notes>>
       \/ /\ wk[w].mode = "create"
          /\ wk[w].out \in DOMAIN notes
          /\ Throws(w, Error("File already exists."))
          /\ UNCHANGED <<calls, notes>>
       \/ /\ notes' = Put(notes, wk[w].out, templateData(i, wk[w].content, wk[w].out))
          /\ \/ /\ settings.moveFilesAfterProcessing
                /\ wk' = [wk EXCEPT ![w] = moveSourceFileBegin(w)]
                /\ calls' = [calls EXCEPT ![i] = @ \cup createNoteEndCalls
                                                      \cup moveSourceFileBeginCalls]
             \/ /\ ~settings.moveFilesAfterProcessing
                /\ wk' = [wk EXCEPT ![w].pc = "returned", ![w].result = Success(wk[w].out)]
                /\ calls' = [calls EXCEPT ![i] = @ \cup createNoteEndCalls]
          /\ UNCHANGED threw
    /\ UNCHANGED <<parsing, invoked, rendering, settings, requests, reply, files, inputPaths, modal, isProcessing,
                   notices, batch, queue, processing, completed, results, progress,
                   folders, others, now>>

\* vault.createFolder(processedFilesFolder) settles.
MkProcDone(w) ==
    /\ wk[w].pc = "mkProc"
    /\ \/ /\ processedFilesFolder \in folders
          /\ Throws(w, moveSourceFileCatch(Error("Folder already exists.")))
          /\ UNCHANGED <<calls, folders>>
       \/ /\ folders' = folders \cup {processedFilesFolder}
          /\ wk' = [wk EXCEPT ![w] = moveSourceFileRename(w)]
          /\ calls' = [calls EXCEPT ![wk[w].file] = @ \cup {"renameFile"}]
          /\ UNCHANGED threw
    /\ UNCHANGED <<parsing, invoked, rendering, settings, requests, reply, files, inputPaths, modal, isProcessing,
                   notices, batch, queue, processing, completed, results, progress, others,
                   notes, now>>

\* fileManager.renameFile settles: it fails when the destination exists by
\* then, and otherwise the TFile object has its new path.
RenameDone(w) ==
    /\ wk[w].pc = "renaming"
    /\ LET i == wk[w].file IN
       \/ /\ getAbstractFileByPath(wk[w].target.path)
          /\ Throws(w, moveSourceFileCatch(Error("Destination file already exists!")))
          /\ UNCHANGED files
       \/ /\ Throws(w, moveSourceFileCatch(Error("rename failed")))
          /\ UNCHANGED files
       \/ /\ ~getAbstractFileByPath(wk[w].target.path)
          /\ files' = [files EXCEPT ![i] = wk[w].target]
          /\ wk' = [wk EXCEPT ![w].pc = "returned", ![w].result = Success(wk[w].out)]
          /\ UNCHANGED threw
    /\ UNCHANGED <<parsing, invoked, rendering, settings, requests, reply, inputPaths, modal, isProcessing, notices,
                   batch, queue, processing, completed, results, progress, folders, others,
                   notes, calls, now>>

\* ------------------------------------------------------------------ processNext
\* processNext after `await this.processFile(file)`: the outcome is stored
\* under the file's path, the result and progress callbacks run.
Record(w) ==
    /\ wk[w].pc = "returned"
    /\ results' = Put(results, files[wk[w].file].path, wk[w].result)
    /\ completed' = completed + 1
    /\ invoked' = [invoked EXCEPT ![wk[w].file].resultCallback = @ + 1]
    /\ progress' = [current |-> completed + 1, total |-> N, currentFile |-> ""]
    /\ wk' = [wk EXCEPT ![w].pc = "loop"]
    /\ UNCHANGED <<parsing, rendering, settings, requests, reply, files, inputPaths, modal, isProcessing,
                   notices, batch, queue, processing, folders, others, notes, calls, threw,
                   now>>

\* The worker loop after `await processNext()`: while (queue.length > 0) the
\* next file is shifted and started; otherwise the worker's promise resolves.
Loop(w) ==
    /\ wk[w].pc = "loop"
    /\ \/ /\ queue # <<>>
          /\ LET i == shift(queue).file IN
                /\ queue' = shift(queue).rest
                /\ progress' = [current |-> completed + processing, total |-> N,
                                currentFile |-> files[i].name]
                /\ wk' = [wk EXCEPT ![w] = processFileBegin(i)]
                /\ calls' = [calls EXCEPT ![i] = @ \cup processFileBeginCalls(i)]
                /\ invoked' = [invoked EXCEPT ![i].processFile = @ + 1]
       \/ /\ queue = <<>>
          /\ wk' = [wk EXCEPT ![w].pc = "done"]
          /\ UNCHANGED <<queue, progress, calls, invoked>>
    /\ UNCHANGED <<parsing, rendering, settings, requests, reply, files, inputPaths, modal, isProcessing,
                   notices, batch, processing, completed, results, folders, others, notes,
                   threw, now>>

\* `await Promise.all(processing)` settles and processBatch resolves; the
\* modal then shows its summary.
Resolve ==
    /\ batch = "running"
    /\ \A w \in Workers : wk[w].pc \in {"none", "done"}
    /\ batch' = "resolved"
    /\ notices' = IF \E p \in DOMAIN results : results[p].success
                  THEN Append(notices, "Successfully processed")
                  ELSE notices
    /\ UNCHANGED <<parsing, invoked, rendering, settings, requests, reply, files, inputPaths, modal, isProcessing,
                   queue, processing, completed, results, progress, wk, folders, others,
                   notes, calls, threw, now>>

\* Time passes while calls are outstanding.  The clock is read only when
\* moveSourceFile builds a timestamp, which is in the segment that follows a
\* write or the creation of the processed-files folder.
Tick ==
    /\ batch = "running"
    /\ settings.moveFilesAfterProcessing
    /\ \E w \in Workers : wk[w].pc \in {"writing", "mkProc"}
    /\ now < MaxClock
    /\ now' = now + 1
    /\ UNCHANGED <<parsing, invoked, rendering, settings, requests, reply, files, inputPaths, modal, isProcessing,
                   notices, batch, queue, processing, completed, results, progress, wk,
                   folders, others, notes, calls, threw>>

Next ==
    \/ \E origin \in Origins : processFiles(origin)
    \/ StartClick
    \/ CancelClick
    \/ \E w \in Workers : ReadDone(w)
    \/ \E w \in Workers : BackendDone(w)
    \/ \E w \in Workers : MkOutDone(w)
    \/ \E w \in Workers : WriteDone(w)
    \/ \E w \in Workers : MkProcDone(w)
    \/ \E w \in Workers : RenameDone(w)
    \/ \E w \in Workers : Record(w)
    \/ \E w \in Workers : Loop(w)
    \/ Resolve
    \/ Tick

Spec == Init /\ [][Next]_vars

\* ------------------------------------------ processBatch, throwing callbacks
\* ProcessingModal's callbacks set DOM properties and do not throw; Spec is
\* the batch as the modal runs it.  processBatch takes any callbacks: below
\* a call of the progress or the result callback may throw.  The throw is
\* caught nowhere: processNext rejects, `await processNext()` throws inside
\* the worker's while loop and the worker's promise rejects.

\* Faulty variant of rejected: the throw is caught and the loop goes on.
rejected_Caught(rec) == [rec EXCEPT !.pc = "loop"]

\* The worker's record once its promise has rejected.
rejected(rec) == [rec EXCEPT !.pc = "rejected"]

\* The start click where, for the workers in T, the first progress callback
\* throws: the file is shifted, processFile is not called for it.
StartClickThrows ==
    /\ modal = "open"
    /\ ~isProcessing
    /\ isProcessing' = TRUE
    /\ batch' = "running"
    /\ results' = <<>>
    /\ completed' = 0
    /\ LET k == workersStarted IN
       \E T \in (SUBSET (1..k)) \ {{}} :
          /\ processing' = k
          /\ queue' = [j \in 1..(N - k) |-> j + k]
          /\ wk' = [w \in Workers |->
                      IF w \in T THEN rejected([Idle EXCEPT !.file = w])
                      ELSE IF w <= k THEN processFileBegin(w)
                      ELSE Idle]
          /\ calls' = [i \in 1..N |->
                         IF i <= k /\ i \notin T THEN processFileBeginCalls(i) ELSE {}]
          /\ invoked' = [i \in 1..N |->
                           IF i \in T THEN [invoked[i] EXCEPT !.callbackThrew = TRUE]
                           ELSE IF i <= k THEN [invoked[i] EXCEPT !.processFile = @ + 1]
                           ELSE invoked[i]]
          /\ progress' = [current |-> k - 1, total |-> N, currentFile |-> files[k].name]
    /\ UNCHANGED <<parsing, rendering, settings, requests, reply, files, inputPaths, modal, notices,
                   folders, others, notes, threw, now>>

\* The worker loop takes the next file and the progress callback throws.
LoopThrows(w) ==
    /\ wk[w].pc = "loop"
    /\ queue # <<>>
    /\ LET i == shift(queue).file IN
          /\ queue' = shift(queue).rest
          /\ progress' = [current |-> completed + processing, total |-> N,
                          currentFile |-> files[i].name]
          /\ wk' = [wk EXCEPT ![w] = rejected([Idle EXCEPT !.file = i])]
          /\ invoked' = [invoked EXCEPT ![i].callbackThrew = TRUE]
    /\ UNCHANGED <<parsing, rendering, settings, requests, reply, files, inputPaths, modal,
                   isProcessing, notices, batch, processing, completed, results, folders,
                   others, notes, calls, threw, now>>

\* processNext after `await this.processFile(file)` where the result callback
\* throws (no completion snapshot is emitted) or the progress callback does.
RecordThrows(w) ==
    /\ wk[w].pc = "returned"
    /\ results' = Put(results, files[wk[w].file].path, wk[w].result)
    /\ completed' = completed + 1
    /\ invoked' = [invoked EXCEPT ![wk[w].file].resultCallback = @ + 1,
                                  ![wk[w].file].callbackThrew = TRUE]
    /\ \/ UNCHANGED progress
       \/ progress' = [current |-> completed + 1, total |-> N, currentFile |-> ""]
    /\ wk' = [wk EXCEPT ![w] = rejected(wk[w])]
    /\ UNCHANGED <<parsing, rendering, settings, requests, reply, files, inputPaths, modal,
                   isProcessing, notices, batch, queue, processing, folders, others, notes,
                   calls, threw, now>>

\* `await Promise.all(processing)` rejects with the first worker promise that
\* rejects: processBatch rejects, and so does the modal's click handler.
Reject ==
    /\ batch = "running"
    /\ \E w \in Workers : wk[w].pc = "rejected"
    /\ batch' = "rejected"
    /\ UNCHANGED <<parsing, invoked, rendering, settings, requests, reply, files, inputPaths,
                   modal, isProcessing, notices, queue, processing, completed, results,
                   progress, wk, folders, others, notes, calls, threw, now>>

\* A batch with a key, at least one worker, the source files moved, and both
\* folders still to be created.
InitCallbacks ==
    /\ Init
    /\ settings.geminiApiKey = "key"
    /\ settings.concurrentWorkers >= 1
    /\ settings.moveFilesAfterProcessing
    /\ ~settings.autoOpenCreatedNotes
    /\ folders = {<<"a">>, <<"b">>}

NextCallbacks ==
    \/ Next
    \/ StartClickThrows
    \/ \E w \in Workers : LoopThrows(w)
    \/ \E w \in Workers : RecordThrows(w)
    \/ Reject

SpecCallbacks == InitCallbacks /\ [][NextCallbacks]_vars

\* ------------------------------------- processBatch, a call that never settles
\* generateContent is a fetch without timeout and without abort signal: the
\* promise of one call may stay pending for ever.

\* The reply of a call that never settles.
Never == [kind |-> "never"]

\* Faulty variant of hang: the call is given up and returns a failed outcome.
hang_TimesOut(rec) == [rec EXCEPT !.pc = "returned", !.result = Failure("timeout")]

\* The worker's record while `await this.processFile(file)` stays pending.
hang(rec) == [rec EXCEPT !.pc = "hung"]

\* The call of the backend for the worker's file stays pending (one call of
\* the batch at most).
BackendHangs(w) ==
    /\ wk[w].pc = "extracting"
    /\ \A i \in 1..N : reply[i] # Never
    /\ reply' = [reply EXCEPT ![wk[w].file] = Never]
    /\ wk' = [wk EXCEPT ![w] = hang(wk[w])]
    /\ UNCHANGED <<parsing, invoked, rendering, settings, requests, files, inputPaths, modal,
                   isProcessing, notices, batch, queue, processing, completed, results,
                   progress, folders, others, notes, calls, threw, now>>

InitHang == InitCallbacks

NextHang ==
    \/ Next
    \/ \E w \in Workers : BackendHangs(w)

\* Every other call settles and the event loop runs every continuation that
\* is ready: the steps of a worker and the continuation of Promise.all.
FairHang ==
    /\ \A w \in Workers :
          /\ WF_vars(ReadDone(w))
          /\ WF_vars(BackendDone(w))
          /\ WF_vars(MkOutDone(w))
          /\ WF_vars(WriteDone(w))
          /\ WF_vars(MkProcDone(w))
          /\ WF_vars(RenameDone(w))
          /\ WF_vars(Record(w))
          /\ WF_vars(Loop(w))
    /\ WF_vars(Resolve)

SpecHang == InitHang /\ [][NextHang]_vars /\ FairHang

\* ================================================================== claims

\* The worker that has file i in hand between its dequeue and its Record.
Holder(i) ==
    {w \in Workers : wk[w].file = i /\ wk[w].pc \notin {"none", "loop", "done", "rejected"}}

\* File i has been dequeued and its outcome is stored in the result map.
Recorded(i) ==
    /\ files[i].path \in DOMAIN results
    /\ Holder(i) = {}
    /\ i \notin Range(queue)

OutcomeOf(i) == results[files[i].path]

\* C1: when processBatch resolves, the key set of the returned map equals the
\* set of input file paths, for every list of distinct files and every
\* configured worker count.
C1_KeySetEqualsInputPaths ==
    batch = "resolved" => DOMAIN results = Range(inputPaths)

\* C3: the number of workers processBatch starts is the configured count
\* clamped to [1, file count]: at least one for a non-empty list, whatever
\* the configured value, and never more than the number of files.
C3_WorkersClamped ==
    (batch # "idle" /\ N > 0) =>
        processing = Min(Max(settings.concurrentWorkers, 1), N)

\* C5: processBatch does not resolve before the queue is empty and every
\* dequeued file has its outcome recorded: where it resolves, completed
\* equals the number of input files and nothing is in flight.
C5_ResolvesOnlyWhenAllDone ==
    batch = "resolved" => (queue = <<>> /\ completed = N /\ InFlight = {})

\* C4 as stated: in every reachable state the number of in-flight files is at
\* most min(configured worker count, number of input files).
C4_InFlightAtMostMin ==
    Cardinality(InFlight) <= Min(settings.concurrentWorkers, N)

\* C4 amended: the number of in-flight files is at most the number of workers
\* started, max(0, min(configured worker count, number of input files)).
C4_InFlightAtMostStarted ==
    Cardinality(InFlight) <= Max(0, Min(settings.concurrentWorkers, N))

\* as many files in flight as the bound allows, with more than one worker
C4_Witness ==
    /\ Cardinality(InFlight) = 2
    /\ Min(settings.concurrentWorkers, N) = 2

\* The content is empty or made of whitespace only.
Blank(content) == \A k \in 1..Len(content) : content[k] \in WhiteSpace

NoTextFailure == Failure("No text extracted from file")

\* C6: when extraction succeeds with empty or whitespace-only content, the
\* outcome is the failure 'No text extracted from file', no note is created
\* or overwritten for the file and the source file is not moved.
C6_BlankContentIsFailure ==
    \A i \in 1..N :
        (reply[i].kind = "json" /\ Blank(reply[i].content)) =>
            /\ calls[i] \cap {"createFolder", "write", "createFolder(processed)",
                            "renameFile"} = {}
            /\ \A p \in DOMAIN notes : notes[p].of # i
            /\ files[i].path = inputPaths[i]
            /\ \/ \E w \in Holder(i) : wk[w].pc = "returned" /\ wk[w].result = NoTextFailure
               \/ Recorded(i) /\ OutcomeOf(i) = NoTextFailure

\* a whitespace-only reply was recorded in a batch that also wrote a note
C6_Witness ==
    /\ \E i \in 1..N : reply[i].content = <<" ", "\n">> /\ Recorded(i)
    /\ DOMAIN notes # {}

SupportedExtensions == {"pdf", "png", "jpg", "jpeg", "webp", "gif"}

\* C7: for a file whose extension, compared case-insensitively, is not one of
\* pdf, png, jpg, jpeg, webp, gif, processFile returns a failed outcome
\* without reading the file and without a backend call.
C7_UnsupportedRejectedBeforeRead ==
    \A i \in 1..N :
        toLowerCase(files[i].extension) \notin SupportedExtensions =>
            /\ calls[i] = {}
            /\ reply[i] = NoReply
            /\ \A w \in Holder(i) : wk[w].pc = "returned" /\ ~wk[w].result.success
            /\ Recorded(i) => ~OutcomeOf(i).success

\* the unsupported file got its outcome in a batch where another file succeeded
C7_Witness ==
    \E i, j \in 1..N :
        /\ toLowerCase(files[i].extension) \notin SupportedExtensions
        /\ Recorded(i) /\ ~OutcomeOf(i).success
        /\ Recorded(j) /\ OutcomeOf(j).success

KeyNotice == "Please set your Gemini API key in the plugin settings"

\* C8: with an empty API key every request to process files is rejected once,
\* before any file is queued: one notice per request, no processing modal,
\* no backend call (no collaborator call at all) and no per-file outcome.
C8_MissingKeyRejectsRequest ==
    settings.geminiApiKey = "" =>
        /\ modal = "none"
        /\ ~isProcessing
        /\ batch = "idle"
        /\ queue = <<>>
        /\ results = <<>>
        /\ \A i \in 1..N : calls[i] = {} /\ reply[i] = NoReply
        /\ Len(notices) = requests
        /\ \A k \in 1..Len(notices) : notices[k] = KeyNotice

\* requests for a non-empty file list were made without a key
C8_Witness ==
    settings.geminiApiKey = "" /\ N > 0 /\ requests = 2

RECURSIVE Follow(_, _)
Follow(at, rel) ==
    IF rel = <<>> THEN at
    ELSE IF Head(rel) = ".." THEN Follow(SubSeq(at, 1, Len(at) - 1), Tail(rel))
    ELSE IF Head(rel) = "." THEN Follow(at, Tail(rel))
    ELSE Follow(Append(at, Head(rel)), Tail(rel))

ResolveLink(notePath, rel) == Follow(SubSeq(notePath, 1, Len(notePath) - 1), rel)

\* C9: with move-after-processing enabled and a successful outcome, the
\* source path and the backlink written into the note name the place where
\* the source file is after the move step, also when a file of the same name
\* was already in the processed-files folder.
C9_NoteNamesMovedLocation ==
    \A i \in 1..N :
        (settings.moveFilesAfterProcessing /\ Recorded(i) /\ OutcomeOf(i).success) =>
            LET fp == OutcomeOf(i).filePath IN
            (fp \in DOMAIN notes /\ notes[fp].of = i) =>
                /\ notes[fp].absoluteFilePath = files[i].path
                /\ ResolveLink(fp, notes[fp].markdownLink.target) = files[i].path

CollisionFailure == "Failed to move file: Destination file already exists!"

\* C10: when a file of the same name exists at the destination, or is being
\* moved there by another worker, the move is disambiguated by a timestamp:
\* no file in the processed-files folder is overwritten (no two files end up
\* on one path) and the collision does not make the outcome a failure.
C10_CollisionNeverFailsNorOverwrites ==
    /\ \A i, j \in 1..N : i # j => files[i].path # files[j].path
    /\ \A i \in 1..N : files[i].path \notin others
    /\ \A i \in 1..N : Recorded(i) => OutcomeOf(i).error # CollisionFailure
    /\ \A w \in Workers : wk[w].pc = "returned" => wk[w].result.error # CollisionFailure

\* The move step of file i was entered (its first call was made) and a value
\* was thrown: the move step is the last one, so the throw is the move's.
MoveFailed(i) ==
    /\ calls[i] \cap {"createFolder(processed)", "renameFile"} # {}
    /\ threw[i] # NoThrow

MoveFailureMessages ==
    {"Failed to move file: Destination file already exists!",
     "Failed to move file: rename failed",
     "Failed to move file: Folder already exists."}

\* The path createNote wrote the note of file i to (the file was not moved).
NotePathOf(i) == JoinPath(outputFolder, generateFilename(files[i].stem))

\* C11: when the move of the source file fails after the note was written,
\* the file's outcome is success=false with a message that names the move
\* failure, and a note is still in the vault at the path it was written to
\* (nothing is rolled back); the source file is where it was.
C11_MoveFailureKeepsNote ==
    \A i \in 1..N :
        MoveFailed(i) =>
            /\ \A w \in Holder(i) :
                    /\ wk[w].pc = "returned"
                    /\ ~wk[w].result.success
                    /\ wk[w].result.error \in MoveFailureMessages
            /\ Recorded(i) =>
                    /\ ~OutcomeOf(i).success
                    /\ OutcomeOf(i).error \in MoveFailureMessages
            /\ NotePathOf(i) \in DOMAIN notes
            /\ files[i].path = inputPaths[i]

\* the rename of a file was refused, its failure is recorded and the note it
\* wrote is in the vault
C11_Witness ==
    \E i \in 1..N :
        /\ "renameFile" \in calls[i] /\ MoveFailed(i) /\ Recorded(i)
        /\ NotePathOf(i) \in DOMAIN notes /\ notes[NotePathOf(i)].of = i

\* The file taken from the queue last: the queue is filled in input order
\* and shifted from the front.
LastTaken == N - Len(queue)

\* C20: the snapshot a worker emits when it takes a file has currentFile =
\* that file's name, total = the number of input files, and current = the
\* files completed so far plus the files in flight at that moment (counted
\* without or with the file just taken).  The snapshot stays the latest one
\* until the next file is recorded or taken, and completed and the files in
\* flight do not change before that.
C20_PickupSnapshotCountsInFlight ==
    progress.currentFile \notin {"", Absent} =>
        /\ progress.currentFile = inputPaths[LastTaken][Len(inputPaths[LastTaken])]
        /\ progress.total = N
        /\ progress.current \in {completed + Cardinality(InFlight) - 1,
                                 completed + Cardinality(InFlight)}

\* The calls of the move step.
MoveCalls == {"createFolder(processed)", "renameFile"}

\* The path the note of file i is written to: the name comes from the base
\* name the file had when the batch was given it.
WrittenPathOf(i) ==
    LET f == CHOOSE f \in Range(FileUniverse) : f.path = inputPaths[i]
    IN  JoinPath(outputFolder, generateFilename(f.stem))

\* C23 as stated: with move-after-processing and auto-open enabled the note
\* is written, then the source file is moved, and only after that is the
\* opening of the note requested: where the opening has been requested, the
\* source file has been moved.
C23_OpenFollowsTheMove ==
    \A i \in 1..N :
        (settings.moveFilesAfterProcessing /\ "openFile" \in calls[i]) =>
            files[i].path # inputPaths[i]

\* C23 amended: the note is written, then the opening of the created note is
\* requested, and only after that is the source file moved: where the opening
\* has been requested the note is in the vault, and where the move step has
\* begun (its first call was made) the opening has been requested already.
C23_OpenPrecedesTheMove ==
    \A i \in 1..N :
        /\ "openFile" \in calls[i] =>
              /\ settings.autoOpenCreatedNotes
              /\ "write" \in calls[i]
              /\ WrittenPathOf(i) \in DOMAIN notes
        /\ (settings.autoOpenCreatedNotes /\ calls[i] \cap MoveCalls # {}) =>
              "openFile" \in calls[i]
        /\ (settings.autoOpenCreatedNotes /\ files[i].path # inputPaths[i]) =>
              "openFile" \in calls[i]

\* a file went through all three steps: its note was written and opened, the
\* source file was moved and the success is recorded
C23_Witness ==
    \E i \in 1..N :
        /\ settings.moveFilesAfterProcessing /\ settings.autoOpenCreatedNotes
        /\ "openFile" \in calls[i]
        /\ files[i].path # inputPaths[i]
        /\ Recorded(i) /\ OutcomeOf(i).success

\* C25: every progress snapshot handed to the progress callback satisfies
\* 0 <= current <= total, for every number of files, every worker count and
\* every interleaving of completions.
C25_SnapshotWithinTotal ==
    progress # NoProgress =>
        (0 <= progress.current /\ progress.current <= progress.total)

\* C26: when a batch completes, distinct input files with successful outcomes
\* have distinct filePath values, and the note at each filePath is the one
\* rendered from that file's own extraction.
C26_NotesAreNotOverwritten ==
    batch = "resolved" =>
        \A i \in 1..N :
            (Recorded(i) /\ OutcomeOf(i).success) =>
                /\ \A j \in 1..N :
                      (j # i /\ Recorded(j) /\ OutcomeOf(j).success) =>
                          OutcomeOf(j).filePath # OutcomeOf(i).filePath
                /\ OutcomeOf(i).filePath \in DOMAIN notes
                /\ notes[OutcomeOf(i).filePath].of = i

FolderExistsFailures ==
    {"Folder already exists.", "Failed to move file: Folder already exists."}

\* C27: during one batch the creation of the output folder is requested at
\* most once (for at most one file), and no file fails because another
\* worker created a folder between the file's existence check and its
\* create call.
C27_FolderCreatedOnceAndNoFailure ==
    /\ Cardinality({i \in 1..N : "createFolder" \in calls[i]}) <= 1
    /\ \A i \in 1..N : threw[i].message \notin FolderExistsFailures
    /\ \A i \in 1..N : Recorded(i) => OutcomeOf(i).error \notin FolderExistsFailures

\* the files whose result callback has been called
Reported == {i \in 1..N : invoked[i].resultCallback >= 1}

\* C28: the completion snapshots (empty currentFile) carry current = 1, 2,
\* ..., n in that order, one per input file; the result callback is called
\* exactly once per file, after the file's map entry is set and together
\* with its completion snapshot; the last snapshot of the batch has current =
\* total and empty currentFile.  On the states: the completed count is the
\* number of files reported, a completion snapshot carries that count, and
\* a resolved batch has reported every file and emitted {n, n, ''} last.
C28_CompletionSnapshotsCountUp ==
    /\ \A i \in 1..N : invoked[i].resultCallback <= 1
    /\ \A i \in Reported : files[i].path \in DOMAIN results
    /\ completed = Cardinality(Reported)
    /\ progress.currentFile = "" =>
          (progress.current = completed /\ progress.total = N)
    /\ batch = "resolved" =>
          /\ Reported = 1..N
          /\ progress = [current |-> N, total |-> N, currentFile |-> ""]

\* C29: files are taken from the shared queue in input order and each input
\* file is passed to processFile at most once: what is left in the queue is
\* a tail of the input list, the files before it were each passed to
\* processFile exactly once and the others never, and no two workers have
\* the same file in hand.
C29_EachFileTakenOnceInOrder ==
    batch # "idle" =>
        /\ queue = [j \in 1..Len(queue) |-> LastTaken + j]
        /\ \A i \in 1..N :
              invoked[i].processFile = (IF i <= LastTaken THEN 1 ELSE 0)
        /\ \A w1, w2 \in InFlight : w1 # w2 => wk[w1].file # wk[w2].file
        /\ \A w \in InFlight : wk[w].file <= LastTaken

\* three files went through two workers and the batch resolved
C29_Witness ==
    /\ batch = "resolved"
    /\ N = 3
    /\ settings.concurrentWorkers = 2
    /\ \A i \in 1..N : invoked[i].processFile = 1 /\ Recorded(i)

\* C30: for one processing modal processBatch is started at most once,
\* whatever clicks on the start and the cancel/close button occur (no file
\* is passed to processFile twice, the batch never goes back to running),
\* and closing the modal after the start does not stop the batch: it
\* resolves only with an outcome recorded for every file.
C30_OneBatchThatRunsToTheEnd ==
    /\ \A i \in 1..N : invoked[i].processFile <= 1
    /\ batch # "idle" => isProcessing
    /\ (modal = "closed" /\ batch = "resolved") => \A i \in 1..N : Recorded(i)

\* C21 as stated: when a progress or result callback throws, only the
\* current iteration of the worker is aborted: the worker goes on with the
\* next queued file (no worker has stopped while files are queued) and
\* processBatch still resolves (it does not reject).
C21_ThrowAbortsOneIteration ==
    /\ \A w \in Workers : wk[w].pc \in {"done", "rejected"} => queue = <<>>
    /\ batch # "rejected"

\* C21 amended: when a progress or result callback throws, the worker that
\* called it is aborted for good (it keeps the file of the throw and takes
\* no further one), the other workers are unaffected (they stop only on an
\* empty queue), and processBatch does not resolve: it rejects.
C21_ThrowEndsTheWorker ==
    /\ \A i \in 1..N :
          invoked[i].callbackThrew =>
              /\ \E w \in Workers : wk[w].pc = "rejected" /\ wk[w].file = i
              /\ batch \in {"running", "rejected"}
    /\ \A w \in Workers : wk[w].pc = "done" => queue = <<>>
    /\ batch = "rejected" => \E i \in 1..N : invoked[i].callbackThrew

\* a callback threw for the first file while files were queued; the other
\* worker went on to the end of the queue and the batch has rejected
C21_Witness ==
    /\ batch = "rejected"
    /\ N = 3
    /\ invoked[1].callbackThrew
    /\ \E w \in Workers : wk[w].pc = "done"
    /\ Recorded(2) /\ Recorded(3)

\* The call of the backend for file h never settles.
Hung(h) == h \in 1..N /\ reply[h] = Never

\* Every input file but h is dequeued, recorded and reported once.
OthersReported(h) ==
    \A i \in (1..N) \ {h} : Recorded(i) /\ invoked[i].resultCallback = 1

\* C22: if the backend call for one file never returns and at least two
\* workers were started, then every other input file is eventually dequeued,
\* gets its outcome recorded and is reported once through the result
\* callback, while processBatch never resolves.
C22_OthersFinishBatchNeverResolves ==
    /\ [](\A h \in 1..MaxFiles : Hung(h) => batch # "resolved")
    /\ [](( /\ \E h \in 1..MaxFiles : Hung(h)
            /\ settings.concurrentWorkers >= 2 )
          => <>(\A h \in 1..MaxFiles : Hung(h) => OthersReported(h)))

\* the call for the first of three files hangs, the other worker has taken
\* both other files and their outcomes are recorded and reported
C22_Witness ==
    /\ N = 3
    /\ Hung(1)
    /\ \E w \in Workers : wk[w].pc = "hung" /\ wk[w].file = 1
    /\ \A i \in {2, 3} : Recorded(i) /\ invoked[i].resultCallback = 1
    /\ batch = "running"

\* ================================================= createNote's pure pipeline
\* Strings of the templates and values are sequences of atoms: an atom is one
\* character of punctuation or white space ("{", "}", "\\", ".", ":", "-",
\* ",", "_", " ", "\n") or a maximal run of word characters ("tags", "k").
\* A value of the loosely typed variable bag carries its JavaScript type.
StrV(str) == [type |-> "string", s |-> str, items |-> <<>>]
NumV(str) == [type |-> "number", s |-> str, items |-> <<>>]
ArrV(elems) == [type |-> "array", s |-> <<>>, items |-> elems]
Undefined == [type |-> "undefined", s |-> <<>>, items |-> <<>>]
\* the elements of an array value
StrE(str) == [type |-> "string", s |-> str]
NumE(str) == [type |-> "number", s |-> str]

\* Array.prototype.includes on an array of strings
Includes(list, str) == \E k \in 1..Len(list) : list[k] = str

\* Faulty variant of the merge loop's test: the includes test is missing.
tagIsNew_NoIncludes(allTags, tag) ==
    tag.type = "string" /\ trim(tag.s) # <<>>

\* `typeof tag === 'string' && tag.trim() && !allTags.includes(tag)`
tagIsNew(allTags, tag) ==
    tag.type = "string" /\ trim(tag.s) # <<>> /\ ~Includes(allTags, tag.s)

\* the loop `for (const tag of tags)` from index i on
RECURSIVE mergeLoop(_, _, _)
mergeLoop(allTags, tags, i) ==
    IF i > Len(tags) THEN allTags
    ELSE mergeLoop(IF tagIsNew(allTags, tags[i]) THEN Append(allTags, tags[i].s)
                   ELSE allTags,
                   tags, i + 1)

\* FileProcessor.mergeTagsWithDefaults, with this.settings.defaultTags
mergeTagsWithDefaults(defaultTags, extractedTags) ==
    LET tags == IF extractedTags.type = "array" THEN extractedTags.items
                ELSE IF extractedTags.type = "string" THEN <<StrE(extractedTags.s)>>
                ELSE <<>>
    IN  mergeLoop(defaultTags, tags, 1)

\* Object lookup in a variable bag (a sequence of key/value entries):
\* undefined when the key is absent.
Lookup(bag, key) ==
    IF \E k \in 1..Len(bag) : bag[k].key = key
    THEN bag[CHOOSE k \in 1..Len(bag) : bag[k].key = key].value
    ELSE Undefined

\* JavaScript truthiness of a value
Truthy(v) ==
    CASE v.type = "undefined" -> FALSE
      [] v.type = "string" -> v.s # <<>>
      [] v.type = "number" -> v.s # <<"0">>
      [] OTHER -> TRUE

\* `result.extractedVariables.tags || []`
extractedTagsOf(extractedVariables) ==
    LET t == Lookup(extractedVariables, "tags")
    IN  IF Truthy(t) THEN t ELSE ArrV(<<>>)

\* ------------------------------------------------------- regular expressions
\* \s and \w on atoms
IsSpace(a) == a \in WhiteSpace
IsWord(a) == a \notin WhiteSpace \cup {"{", "}", "\\", ".", ":", "-", ",", "[", "]", "#"}

\* the first position from i on that holds no white space (\s*)
RECURSIVE SkipSpace(_, _)
SkipSpace(str, i) ==
    IF i <= Len(str) /\ IsSpace(str[i]) THEN SkipSpace(str, i + 1) ELSE i

\* the last position of the run of word atoms that starts at i (\w+), or i - 1
RECURSIVE WordRunEnd(_, _)
WordRunEnd(str, i) ==
    IF i <= Len(str) /\ IsWord(str[i]) THEN WordRunEnd(str, i + 1) ELSE i - 1

\* lit occurs in str at position i
StartsAt(str, i, lit) ==
    /\ i + Len(lit) - 1 <= Len(str)
    /\ \A k \in 1..Len(lit) : str[i + k - 1] = lit[k]

\* /\{\{\s*\.?KEY\s*\}\}/ tried at position i: the position of the last atom of
\* the match, or 0
MatchToken(str, i, key) ==
    IF ~StartsAt(str, i, <<"{", "{">>) THEN 0
    ELSE LET b == SkipSpace(str, i + 2)
             c == IF b <= Len(str) /\ str[b] = "." THEN b + 1 ELSE b
             d == SkipSpace(str, c + Len(key))
         IN  IF StartsAt(str, c, key) /\ StartsAt(str, d, <<"}", "}">>)
             THEN d + 1 ELSE 0

\* The patterns the renderer builds:
\*   Lit(l)         the literal l           (/\{\{/, /\}\}/)
\*   Token(key)     {{ key }}               (`\\{\\{\\s*\\.?${key}\\s*\\}\\}`)
\*   LitField(l, key)  l followed by \s* and {{ key }}   (/tags:\s*\{\{...\}\}/)
\*   WordField(key) (\w+):\s*{{ key }}      (`(\\w+):\\s*\\{\\{...\\}\\}`)
Lit(l) == [kind |-> "lit", lit |-> l, key |-> <<>>]
Token(k) == [kind |-> "token", lit |-> <<>>, key |-> k]
LitField(l, k) == [kind |-> "litfield", lit |-> l, key |-> k]
WordField(k) == [kind |-> "wordfield", lit |-> <<>>, key |-> k]

\* the pattern tried at position i: the last position of the match, or 0
Match(str, i, pat) ==
    CASE pat.kind = "lit" ->
            IF StartsAt(str, i, pat.lit) THEN i + Len(pat.lit) - 1 ELSE 0
      [] pat.kind = "token" -> MatchToken(str, i, pat.key)
      [] pat.kind = "litfield" ->
            IF StartsAt(str, i, pat.lit)
            THEN MatchToken(str, SkipSpace(str, i + Len(pat.lit)), pat.key)
            ELSE 0
      [] pat.kind = "wordfield" ->
            LET j == WordRunEnd(str, i)
            IN  IF j >= i /\ j < Len(str) /\ str[j + 1] = ":"
                THEN MatchToken(str, SkipSpace(str, j + 2), pat.key)
                ELSE 0

\* the text of the first capture group of a match at i ($1)
Group1(str, i, pat) ==
    IF pat.kind = "wordfield" THEN SubSeq(str, i, WordRunEnd(str, i)) ELSE <<>>

\* String.prototype.replace with a global regex, from position i on: every
\* match, left to right and not overlapping, becomes $1 followed by repl.
\* (The values of the model hold no '$', so a value used as replacement
\* string stands for itself.)
RECURSIVE ReplaceFrom(_, _, _, _)
ReplaceFrom(str, pat, repl, i) ==
    IF i > Len(str) THEN <<>>
    ELSE LET e == Match(str, i, pat)
         IN  IF e > 0
             THEN Group1(str, i, pat) \o repl \o ReplaceFrom(str, pat, repl, e + 1)
             ELSE <<str[i]>> \o ReplaceFrom(str, pat, repl, i + 1)

replace(str, pat, repl) == ReplaceFrom(str, pat, repl, 1)

\* Array.prototype.join of strings
RECURSIVE Join(_, _)
Join(strs, sep) ==
    IF strs = <<>> THEN <<>>
    ELSE IF Len(strs) = 1 THEN strs[1]
    ELSE strs[1] \o sep \o Join(Tail(strs), sep)

\* String(value): an array is joined with commas
String(v) ==
    CASE v.type = "array" -> Join([k \in 1..Len(v.items) |-> v.items[k].s], <<",">>)
      [] v.type = "undefined" -> <<"undefined">>
      [] OTHER -> v.s

\* value.map(item => `  - ${item}`).join('\n')
yamlArray(items) ==
    Join([k \in 1..Len(items) |-> <<" ", " ", "-", " ">> \o items[k].s], <<"\n">>)

\* ------------------------------------------------------------ TemplateRenderer
\* Object spread {...bag, [key]: value}: an existing key keeps its place and
\* takes the new value, a new key goes to the end.
Spread(bag, key, value) ==
    IF \E k \in 1..Len(bag) : bag[k].key = key
    THEN [k \in 1..Len(bag) |-> IF bag[k].key = key THEN [key |-> key, value |-> value]
                                ELSE bag[k]]
    ELSE Append(bag, [key |-> key, value |-> value])

RECURSIVE SpreadAll(_, _)
SpreadAll(bag, more) ==
    IF more = <<>> THEN bag
    ELSE SpreadAll(Spread(bag, Head(more).key, Head(more).value), Tail(more))

\* Faulty variant of the escape: the content is taken as it is.
escapeContent_None(content) == content

\* data.content.replace(/\{\{/g, '\\{\\{').replace(/\}\}/g, '\\}\\}')
escapeContent(content) ==
    replace(replace(content, Lit(<<"{", "{">>), <<"\\", "{", "\\", "{">>),
            Lit(<<"}", "}">>), <<"\\", "}", "\\", "}">>)

\* Object.entries(escapedData) in key order; tags (an array) and
\* customVariables (an object) are entries too.
escapedDataEntries(data) ==
    <<[key |-> "content", value |-> StrV(escapeContent(data.content))],
      [key |-> "tags", value |-> ArrV([k \in 1..Len(data.tags) |-> StrE(data.tags[k])])],
      [key |-> "filename", value |-> StrV(data.filename)],
      [key |-> "absoluteFilePath", value |-> StrV(data.absoluteFilePath)],
      [key |-> "relativeFilePath", value |-> StrV(data.relativeFilePath)],
      [key |-> "markdownLink", value |-> StrV(data.markdownLink)],
      [key |-> "dateProcessed", value |-> StrV(data.dateProcessed)],
      [key |-> "pageCount", value |-> NumV(data.pageCount)],
      [key |-> "modelUsed", value |-> StrV(data.modelUsed)],
      [key |-> "customVariables", value |-> [type |-> "object", s |-> <<>>, items |-> <<>>]]>>

\* the loop "Replace simple variables"
RECURSIVE replaceSimple(_, _, _)
replaceSimple(result, entries, i) ==
    IF i > Len(entries) THEN result
    ELSE replaceSimple(IF entries[i].value.type \in {"string", "number"}
                       THEN replace(result, Token(<<entries[i].key>>),
                                    String(entries[i].value))
                       ELSE result,
                       entries, i + 1)

\* the loop "Replace custom variables": the prefixed form, then the bare form
RECURSIVE replaceCustom(_, _, _)
replaceCustom(result, bag, i) ==
    IF i > Len(bag) THEN result
    ELSE replaceCustom(
            replace(replace(result, Token(<<"customVariables", ".", bag[i].key>>),
                            String(bag[i].value)),
                    Token(<<bag[i].key>>), String(bag[i].value)),
            bag, i + 1)

\* "Handle array values (like tags)": data.tags is an array, hence truthy,
\* and `data.tags || data.customVariables.tags` is data.tags.
replaceTags(result, tags) ==
    IF Len(tags) > 0
    THEN replace(result, Token(<<"tags">>),
                 <<"\n">> \o yamlArray([k \in 1..Len(tags) |-> StrE(tags[k])]))
    ELSE replace(result, LitField(<<"tags", ":">>, <<"tags">>),
                 <<"tags", ":", " ", "[", "]">>)

\* "Handle other array values in customVariables"
RECURSIVE replaceArrays(_, _, _)
replaceArrays(result, bag, i) ==
    IF i > Len(bag) THEN result
    ELSE replaceArrays(
            IF bag[i].value.type = "array" /\ bag[i].key # "tags"
            THEN IF Len(bag[i].value.items) > 0
                 THEN replace(result, WordField(<<bag[i].key>>),
                              <<":", "\n">> \o yamlArray(bag[i].value.items))
                 ELSE replace(result, WordField(<<bag[i].key>>), <<":", " ", "[", "]">>)
            ELSE result,
            bag, i + 1)

\* TemplateRenderer.renderTemplate
renderTemplate(template, data) ==
    replaceArrays(
        replaceTags(
            replaceCustom(
                replaceSimple(template, escapedDataEntries(data), 1),
                data.customVariables, 1),
            data.tags),
        data.customVariables, 1)

\* now.toISOString() and secondsSinceMidnight.toString(36) at clock value t;
\* in the rendering pipeline one tick of the clock is one second, and the
\* clock values of the model are below 36.
toISOString(t) == <<"D" \o ToString(t)>>
secondsBase36(t) == <<ToString(t)>>

\* the position of the match of /\.[^.]+$/ in a name, or 0: the last dot,
\* when something follows it
extensionStart(name) ==
    LET dots == {k \in 1..Len(name) : name[k] = "."}
    IN  IF dots = {} THEN 0
        ELSE LET p == CHOOSE k \in dots : \A m \in dots : m <= k
             IN  IF p < Len(name) THEN p ELSE 0

\* the loop "Replace all variables" of generateFilename
RECURSIVE replaceAll(_, _, _)
replaceAll(result, entries, i) ==
    IF i > Len(entries) THEN result
    ELSE replaceAll(replace(result, Token(<<entries[i].key>>), String(entries[i].value)),
                    entries, i + 1)

\* const data: FilenameData = {baseName, extension, originalFilename,
\* dateProcessed, secondsBase36, ...customVars}
FilenameData(originalFilename, customVars, t) ==
    LET p == extensionStart(originalFilename)
    IN  SpreadAll(
            <<[key |-> "baseName",
               value |-> StrV(IF p > 0 THEN SubSeq(originalFilename, 1, p - 1)
                              ELSE originalFilename)],
              [key |-> "extension",
               value |-> StrV(IF p > 0 THEN SubSeq(originalFilename, p, Len(originalFilename))
                              ELSE <<>>)],
              [key |-> "originalFilename", value |-> StrV(originalFilename)],
              [key |-> "dateProcessed", value |-> StrV(toISOString(t))],
              [key |-> "secondsBase36", value |-> StrV(secondsBase36(t))]>>,
            customVars)

\* Faulty variant of generateFilename: the seconds token is appended to every
\* filename to keep names apart.
generateFilenameAt_Stamped(template, originalFilename, customVars, t) ==
    replaceAll(template, FilenameData(originalFilename, customVars, t), 1)
        \o <<"_">> \o secondsBase36(t)

\* TemplateRenderer.generateFilename for any template, at clock value t
generateFilenameAt(template, originalFilename, customVars, t) ==
    replaceAll(template, FilenameData(originalFilename, customVars, t), 1)

\* TemplateRenderer.createTemplateData at clock value t
createTemplateData(content, tags, filename, filePath, link, pageCount, modelUsed, customVars, extractedVars, t) ==
    [content |-> content,
     tags |-> tags,
     filename |-> filename,
     absoluteFilePath |-> filePath,
     relativeFilePath |-> filePath,
     markdownLink |-> link,
     dateProcessed |-> toISOString(t),
     pageCount |-> pageCount,
     modelUsed |-> modelUsed,
     customVariables |-> SpreadAll(customVars, extractedVars)]

\* ------------------------------------------- createNote, from result to content
\* The inputs of one rendering: the source file, the two templates, the
\* StructuredResponse and the configured default tags.
SourceFiles ==
    {[basename |-> b, extension |-> <<"png">>, name |-> b \o <<".", "png">>] :
        b \in {<<"meeting", " ", "notes">>, <<"my", ".", "notes">>}}

FilenameTemplates ==
    {<<"{", "{", "baseName", "}", "}", ".", "md">>,
     <<"{", "{", "extension", "}", "}">>,
     <<"{", "{", " ", "originalFilename", " ", "}", "}">>,
     <<"{", "{", "dateProcessed", "}", "}">>,
     <<"{", "{", ".", "secondsBase36", "}", "}">>}

ContentTemplates ==
    {<<"tags", ":", " ", "{", "{", "tags", "}", "}">>,
     <<"k", ":", " ", "{", "{", "k", "}", "}">>,
     <<"{", "{", "content", "}", "}">>,
     <<"dateCreated", ":", " ", "{", "{", "dateProcessed", "}", "}">>}

Contents ==
    {<<"h", "i">>, <<"{", "{", "x", "}", "}">>}

ExtractedVariables ==
    {<<>>,
     <<[key |-> "tags", value |-> ArrV(<<StrE(<<"b">>), StrE(<<"c">>)>>)]>>,
     <<[key |-> "tags", value |-> ArrV(<<StrE(<<"c">>), StrE(<<"c">>)>>)]>>,
     <<[key |-> "tags", value |-> ArrV(<<StrE(<<" ">>), StrE(<<"c">>)>>)]>>,
     <<[key |-> "tags", value |-> ArrV(<<NumE(<<"7">>), StrE(<<"c">>)>>)]>>,
     <<[key |-> "tags", value |-> StrV(<<"c">>)]>>,
     <<[key |-> "tags", value |-> NumV(<<"7">>)]>>,
     <<[key |-> "k", value |-> ArrV(<<StrE(<<"a">>), StrE(<<"b">>)>>)]>>,
     <<[key |-> "k", value |-> ArrV(<<>>)]>>,
     <<[key |-> "x", value |-> StrV(<<"v">>)]>>,
     <<[key |-> "baseName", value |-> StrV(<<"other">>)]>>}

DefaultTags == {<<>>, <<<<"a">>, <<"b">>>>, <<<<"a">>, <<"a">>>>}

RenderInputs ==
    [sourceFile : SourceFiles,
     filenameTemplate : FilenameTemplates,
     templateContent : ContentTemplates,
     content : Contents,
     extractedVariables : ExtractedVariables,
     defaultTags : DefaultTags]

\* createNote: the output filename (sourceFile.basename is what it passes as
\* the original filename)
createNoteFilename(in, t) ==
    generateFilenameAt(in.filenameTemplate, in.sourceFile.basename,
                       in.extractedVariables, t)

\* createNote: the merged tags
createNoteTags(in) ==
    mergeTagsWithDefaults(in.defaultTags, extractedTagsOf(in.extractedVariables))

\* createNote: template data and rendered content, for a source file in
\* folder a that is not moved
createNoteContent(in, allTags, t) ==
    LET sourcePath == <<"a", "/">> \o in.sourceFile.name
        mergedExtractedVariables ==
            Spread(in.extractedVariables, "tags",
                   ArrV([k \in 1..Len(allTags) |-> StrE(allTags[k])]))
    IN  renderTemplate(in.templateContent,
            createTemplateData(in.content, allTags, in.sourceFile.basename,
                               sourcePath, <<"[", "[">> \o sourcePath \o <<"]", "]">>,
                               <<"1">>, <<"gemini">>, <<>>, mergedExtractedVariables, t))

\* ------------------------------------------------- the rendering, step by step
batchVars == <<settings, files, inputPaths, modal, isProcessing, notices, batch, queue,
               processing, completed, results, progress, wk, folders, others, notes,
               calls, threw, reply, requests, invoked>>

\* One extraction result is about to be rendered; no batch is running.
InitRender ==
    /\ settings = [geminiApiKey |-> "key", concurrentWorkers |-> 1,
                   moveFilesAfterProcessing |-> FALSE, autoOpenCreatedNotes |-> FALSE]
    /\ files = <<>>
    /\ inputPaths = <<>>
    /\ modal = "none"
    /\ isProcessing = FALSE
    /\ notices = <<>>
    /\ batch = "idle"
    /\ queue = <<>>
    /\ processing = 0
    /\ completed = 0
    /\ results = <<>>
    /\ progress = NoProgress
    /\ wk = [w \in Workers |-> Idle]
    /\ folders = {}
    /\ others = {}
    /\ notes = <<>>
    /\ calls = <<>>
    /\ threw = <<>>
    /\ reply = <<>>
    /\ requests = 0
    /\ now = 0
    /\ invoked = <<>>
    /\ parsing = NoParsing
    /\ \E in \in RenderInputs :
          rendering = [phase |-> "start", in |-> in, filename |-> <<>>, allTags |-> <<>>,
                       content |-> <<>>, at |-> 0,
                       filename2 |-> <<>>, content2 |-> <<>>, at2 |-> 0]

\* createNote lines 153-159: the output filename
RenderFilename ==
    /\ rendering.phase = "start"
    /\ rendering' = [rendering EXCEPT !.phase = "named",
                                      !.filename = createNoteFilename(rendering.in, now)]
    /\ UNCHANGED <<batchVars, parsing, now>>

\* createNote lines 185-187: the tag merge
MergeTags ==
    /\ rendering.phase = "named"
    /\ rendering' = [rendering EXCEPT !.phase = "merged",
                                      !.allTags = createNoteTags(rendering.in)]
    /\ UNCHANGED <<batchVars, parsing, now>>

\* createNote lines 189-212: template data and rendered content
RenderContent ==
    /\ rendering.phase = "merged"
    /\ rendering' = [rendering EXCEPT
                        !.phase = "rendered",
                        !.content = createNoteContent(rendering.in, rendering.allTags, now),
                        !.at = now]
    /\ UNCHANGED <<batchVars, parsing, now>>

\* The same result, source file and templates are rendered once more.
RenderAgain ==
    /\ rendering.phase = "rendered"
    /\ rendering' = [rendering EXCEPT
                        !.phase = "again",
                        !.filename2 = createNoteFilename(rendering.in, now),
                        !.content2 = createNoteContent(rendering.in,
                                                       createNoteTags(rendering.in), now),
                        !.at2 = now]
    /\ UNCHANGED <<batchVars, parsing, now>>

\* Time passes between the two renderings.
TickRender ==
    /\ rendering.phase = "rendered"
    /\ now < MaxClock
    /\ now' = now + 1
    /\ UNCHANGED <<batchVars, parsing, rendering>>

NextRender ==
    \/ RenderFilename
    \/ MergeTags
    \/ RenderContent
    \/ RenderAgain
    \/ TickRender

SpecRender == InitRender /\ [][NextRender]_vars

\* ======================================================== claims on rendering
\* the tag merge of the rendering has run
Merged == rendering.phase \in {"merged", "rendered", "again"}

\* The extracted tags as an array: a bare string is a one-element array,
\* an absent or other value is no tag at all.
ExtractedTagArray ==
    LET t == Lookup(rendering.in.extractedVariables, "tags")
    IN  IF t.type = "array" THEN t.items
        ELSE IF t.type = "string" THEN <<StrE(t.s)>>
        ELSE <<>>

\* the tags at the positions kept, in their order
RECURSIVE PickFrom(_, _, _)
PickFrom(cand, kept, j) ==
    IF j > Len(cand) THEN <<>>
    ELSE (IF j \in kept THEN <<cand[j].s>> ELSE <<>>) \o PickFrom(cand, kept, j + 1)

\* C12 as stated: the merge returns the default tags in their order, followed
\* by each extracted tag that is not already in the list, in the order of the
\* backend; a bare string counts as a one-element array.
C12_MergeAppendsEveryNewTag ==
    LET cand == ExtractedTagArray
        defaults == rendering.in.defaultTags
        kept == {j \in 1..Len(cand) :
                    /\ cand[j].s \notin Range(defaults)
                    /\ \A k \in 1..(j - 1) : cand[k].s # cand[j].s}
    IN  (Merged /\ \A j \in 1..Len(cand) : cand[j].type = "string") =>
            rendering.allTags = defaults \o PickFrom(cand, kept, 1)

\* C12 amended: the merge returns the default tags in their order, followed
\* by each extracted tag that is a non-blank string and is not already in the
\* list, in the order of the backend; a bare string counts as a one-element
\* array.
C12_MergeAppendsNewNonBlankTags ==
    LET cand == ExtractedTagArray
        defaults == rendering.in.defaultTags
        eligible == {j \in 1..Len(cand) : cand[j].type = "string" /\ ~Blank(cand[j].s)}
        kept == {j \in eligible :
                    /\ cand[j].s \notin Range(defaults)
                    /\ \A k \in eligible : k < j => cand[k].s # cand[j].s}
    IN  Merged => rendering.allTags = defaults \o PickFrom(cand, kept, 1)

\* the example of the claim: defaults [a, b] and extracted [b, c] gave [a, b, c]
C12_Witness ==
    /\ Merged
    /\ rendering.in.defaultTags = <<<<"a">>, <<"b">>>>
    /\ ExtractedTagArray = <<StrE(<<"b">>), StrE(<<"c">>)>>
    /\ rendering.allTags = <<<<"a">>, <<"b">>, <<"c">>>>

\* C13: the tag list handed to the template renderer never holds the same
\* tag twice, whatever the default tag list (one with a repeated tag
\* included) and the extracted tag value.
C13_TagListHasNoRepeats ==
    Merged =>
        \A j, k \in 1..Len(rendering.allTags) :
            j # k => rendering.allTags[j] # rendering.allTags[k]

\* the content of the rendering has been rendered
Rendered == rendering.phase \in {"rendered", "again"}

\* A YAML block sequence: one '  - item' line per string, in order.
RECURSIVE BlockLines(_)
BlockLines(strs) ==
    IF Len(strs) = 1 THEN <<" ", " ", "-", " ">> \o strs[1]
    ELSE <<" ", " ", "-", " ">> \o strs[1] \o <<"\n">> \o BlockLines(Tail(strs))

\* The renderings of 'key: {{key}}' for an array: 'key: []' for the empty
\* array, else the key and the block sequence on the following lines.
YamlField(key, strs) ==
    IF strs = <<>> THEN {<<key, ":", " ", "[", "]">>}
    ELSE {<<key, ":">> \o sp \o <<"\n">> \o BlockLines(strs) : sp \in {<<>>, <<" ">>}}

\* C14: an array-valued extracted variable k used as 'k: {{k}}' is rendered
\* as a YAML block sequence with one '  - item' line per element in array
\* order, and as 'k: []' when the array is empty; it is never substituted as
\* a comma-joined string.
C14_ArrayRendersAsBlockSequence ==
    LET k == Lookup(rendering.in.extractedVariables, "k")
    IN  (/\ Rendered
         /\ rendering.in.templateContent = <<"k", ":", " ", "{", "{", "k", "}", "}">>
         /\ k.type = "array") =>
            rendering.content \in YamlField("k", [j \in 1..Len(k.items) |-> k.items[j].s])

\* C15: in the note createNote produces (the merged tags are the top-level
\* tags field and also the tags entry of the custom variables) the token
\* 'tags: {{tags}}' is rendered as a YAML block sequence of the merged tags,
\* and as 'tags: []' when there is none.
C15_TagsRenderAsBlockSequence ==
    (/\ Rendered
     /\ rendering.in.templateContent = <<"tags", ":", " ", "{", "{", "tags", "}", "}">>) =>
        rendering.content \in YamlField("tags", rendering.allTags)

\* C16: for the template '{{content}}' and a transcribed content that holds
\* the literal text {{x}}, the rendered output holds exactly that text at
\* that place (the same characters, nothing added), whether or not a
\* variable named x exists.
C16_ContentBracesStayLiteral ==
    (/\ Rendered
     /\ rendering.in.templateContent = <<"{", "{", "content", "}", "}">>
     /\ rendering.in.content = <<"{", "{", "x", "}", "}">>) =>
        rendering.content = <<"{", "{", "x", "}", "}">>

\* C16 amended: for the template '{{content}}' and a transcribed content
\* that holds the literal text {{x}}, the rendered output holds that text at
\* that place with its '{{' and '}}' backslash-prefixed, \{\{x\}\}, and it is
\* not replaced by the value of a variable named x.
C16_ContentBracesStayEscaped ==
    (/\ Rendered
     /\ rendering.in.templateContent = <<"{", "{", "content", "}", "}">>
     /\ rendering.in.content = <<"{", "{", "x", "}", "}">>) =>
        rendering.content = <<"\\", "{", "\\", "{", "x", "\\", "}", "\\", "}">>

\* such a content was rendered while an extracted variable named x existed
C16_Witness ==
    /\ Rendered
    /\ rendering.in.templateContent = <<"{", "{", "content", "}", "}">>
    /\ rendering.in.content = <<"{", "{", "x", "}", "}">>
    /\ Lookup(rendering.in.extractedVariables, "x") = StrV(<<"v">>)
    /\ rendering.content # <<"v">>

\* the output filename of the rendering has been generated
Named == rendering.phase # "start"

BuiltInNames == {"baseName", "extension", "originalFilename", "dateProcessed",
                 "secondsBase36"}

\* no extracted variable has the name of a built-in filename variable
NoBuiltInExtracted ==
    \A k \in 1..Len(rendering.in.extractedVariables) :
        rendering.in.extractedVariables[k].key \notin BuiltInNames

\* C17: when createNote renders the output filename for a source file N.E
\* (N may hold further dots), {{baseName}} becomes N, {{extension}} the
\* extension of the source file (with or without its dot) and
\* {{originalFilename}} the full name N.E; '{{baseName}}.md' for
\* 'meeting notes.png' gives 'meeting notes.md'.
C17_FilenameBuiltInsNameTheSource ==
    LET file == rendering.in.sourceFile
        template == rendering.in.filenameTemplate
    IN  (Named /\ NoBuiltInExtracted) =>
            /\ template = <<"{", "{", "baseName", "}", "}", ".", "md">> =>
                  rendering.filename = file.basename \o <<".", "md">>
            /\ template = <<"{", "{", "extension", "}", "}">> =>
                  rendering.filename \in {file.extension, <<".">> \o file.extension}
            /\ template = <<"{", "{", " ", "originalFilename", " ", "}", "}">> =>
                  rendering.filename = file.name

\* C18: the built-in filename variables are available in the filename
\* template with their built-in values whatever the extracted variables are
\* called: the filename is the one the built-ins alone give (the templates of
\* the model use built-in tokens only; the filename is generated at clock 0).
C18_BuiltInsKeepTheirValues ==
    Named =>
        rendering.filename =
            replaceAll(rendering.in.filenameTemplate,
                       FilenameData(rendering.in.sourceFile.basename, <<>>, 0), 1)

\* the rendering was done twice
Twice == rendering.phase = "again"

\* the template holds no {{dateProcessed}} and no {{secondsBase36}} token
ClockFree(template) ==
    \A i \in 1..Len(template) :
        /\ MatchToken(template, i, <<"dateProcessed">>) = 0
        /\ MatchToken(template, i, <<"secondsBase36">>) = 0

Fence == <<"FENCE">>
FenceJson == <<"FENCE", "json">>

\* the reply text: a string, or undefined
Text(str) == [defined |-> TRUE, s |-> str]
NoText == [defined |-> FALSE, s |-> <<>>]

\* what a call comes to: a returned value or a thrown Error
Returned(v) == [thrown |-> FALSE, value |-> v, message |-> ""]
Thrown(msg) == [thrown |-> TRUE, value |-> <<>>, message |-> msg]

\* String.prototype.indexOf(pat, from): the first position >= from at which
\* pat starts; positions count from 1 and 0 is JavaScript's -1.
RECURSIVE indexOf(_, _, _)
indexOf(str, pat, from) ==
    IF from + Len(pat) - 1 > Len(str) THEN 0
    ELSE IF SubSeq(str, from, from + Len(pat) - 1) = pat THEN from
    ELSE indexOf(str, pat, from + 1)

\* String.prototype.lastIndexOf(pat), searched downwards from position from
RECURSIVE lastIndexOfFrom(_, _, _)
lastIndexOfFrom(str, pat, from) ==
    IF from < 1 THEN 0
    ELSE IF SubSeq(str, from, from + Len(pat) - 1) = pat THEN from
    ELSE lastIndexOfFrom(str, pat, from - 1)

lastIndexOf(str, pat) == lastIndexOfFrom(str, pat, Len(str) - Len(pat) + 1)

\* String.prototype.includes
includesText(str, pat) == indexOf(str, pat, 1) # 0

\* String.prototype.substring(start, end), end exclusive
substring(str, start, end) == SubSeq(str, start, end - 1)

\* The JSON texts the atoms can spell (white space between tokens is allowed).
JSONValues == {<<"5">>, <<"{", "}">>, <<"{", "c", "}">>}

\* JSON.parse: the decoded value, or a SyntaxError
JSONparse(str) ==
    LET tokens == SelectSeq(str, LAMBDA a : a \notin WhiteSpace)
    IN  IF tokens \in JSONValues THEN Returned(tokens)
        ELSE Thrown("SyntaxError")

\* lines 408-421: the text of a fenced block, when there is one
fencedText(text) ==
    IF includesText(text, FenceJson)
    THEN LET start == indexOf(text, FenceJson, 1) + Len(FenceJson)
             end == indexOf(text, Fence, start)
         IN  IF end > 0 THEN trim(substring(text, start, end)) ELSE text
    ELSE IF includesText(text, Fence)
    THEN LET start == indexOf(text, Fence, 1) + Len(Fence)
             end == indexOf(text, Fence, start)
         IN  IF end > 0 THEN trim(substring(text, start, end)) ELSE text
    ELSE text

\* Faulty variant of the brace cut: the text is cut at its first '}'.
braceCut_FirstClose(jsonStr) ==
    LET jsonStart == indexOf(jsonStr, <<"{">>, 1)
        jsonEnd == indexOf(jsonStr, <<"}">>, 1)
    IN  IF jsonStart > 0 /\ jsonEnd > jsonStart
        THEN substring(jsonStr, jsonStart, jsonEnd + 1)
        ELSE jsonStr

\* lines 423-428: the text from its first '{' to its last '}'
braceCut(jsonStr) ==
    LET jsonStart == indexOf(jsonStr, <<"{">>, 1)
        jsonEnd == lastIndexOf(jsonStr, <<"}">>)
    IN  IF jsonStart > 0 /\ jsonEnd > jsonStart
        THEN substring(jsonStr, jsonStart, jsonEnd + 1)
        ELSE jsonStr

\* GeminiClient.parseJSONResponse
parseJSONResponse(text) ==
    IF ~text.defined \/ text.s = <<>>
    THEN Thrown("No response text received")
    ELSE JSONparse(braceCut(fencedText(text.s)))

\* The parts replies are put together from.
ReplyParts ==
    {<<"t">>, <<"FENCE">>, <<"FENCE", "json">>, <<"{", "c", "}">>, <<"}">>, <<"\n">>, <<"5">>}

RECURSIVE Concat(_)
Concat(parts) == IF parts = <<>> THEN <<>> ELSE Head(parts) \o Concat(Tail(parts))

ReplyTexts ==
    {NoText} \cup
    {Text(Concat(parts)) : parts \in UNION {[1..n -> ReplyParts] : n \in 0..MaxParts}}

\* generateContent has returned a reply; no batch is followed.
InitParse ==
    /\ settings = [geminiApiKey |-> "key", concurrentWorkers |-> 1,
                   moveFilesAfterProcessing |-> FALSE, autoOpenCreatedNotes |-> FALSE]
    /\ files = <<>>
    /\ inputPaths = <<>>
    /\ modal = "none"
    /\ isProcessing = FALSE
    /\ notices = <<>>
    /\ batch = "idle"
    /\ queue = <<>>
    /\ processing = 0
    /\ completed = 0
    /\ results = <<>>
    /\ progress = NoProgress
    /\ wk = [w \in Workers |-> Idle]
    /\ folders = {}
    /\ others = {}
    /\ notes = <<>>
    /\ calls = <<>>
    /\ threw = <<>>
    /\ reply = <<>>
    /\ requests = 0
    /\ now = 0
    /\ invoked = <<>>
    /\ rendering = NoRendering
    /\ \E text \in ReplyTexts :
          parsing = [phase |-> "start", text |-> text, result |-> Thrown("")]

\* line 460: const parsed = this.parseJSONResponse(text)
ParseReply ==
    /\ parsing.phase = "start"
    /\ parsing' = [parsing EXCEPT !.phase = "parsed",
                                  !.result = parseJSONResponse(parsing.text)]
    /\ UNCHANGED <<batchVars, rendering, now>>

NextParse == ParseReply

SpecParse == InitParse /\ [][NextParse]_vars

\* ========================================================= claims on parsing
Parsed == parsing.phase = "parsed"

\* the positions at which pat starts in str
Occurrences(str, pat) ==
    {p \in 1..Len(str) : p + Len(pat) - 1 <= Len(str)
                         /\ SubSeq(str, p, p + Len(pat) - 1) = pat}

\* the markers pat that are closed by a later FENCE
ClosedAt(str, pat) ==
    {p \in Occurrences(str, pat) : \E q \in Occurrences(str, Fence) : q >= p + Len(pat)}

Least(S) == CHOOSE p \in S : \A q \in S : p <= q
Greatest(S) == CHOOSE p \in S : \A q \in S : p >= q

\* the text between the first closed marker pat and the FENCE that closes it
InsideFirst(str, pat) ==
    LET p == Least(ClosedAt(str, pat))
        q == Least({q \in Occurrences(str, Fence) : q >= p + Len(pat)})
    IN  SubSeq(str, p + Len(pat), q - 1)

\* the text from its first '{' to its last '}' (as it is when there is no
\* such pair)
FirstToLastBrace(str) ==
    LET opens == Occurrences(str, <<"{">>)
        closes == Occurrences(str, <<"}">>)
    IN  IF opens # {} /\ closes # {} /\ Least(opens) < Greatest(closes)
        THEN SubSeq(str, Least(opens), Greatest(closes))
        ELSE str

\* the text decodes: without its white space it is a JSON text
Decodes(str) == SelectSeq(str, LAMBDA a : a \notin WhiteSpace) \in JSONValues
Decoded(str) == SelectSeq(str, LAMBDA a : a \notin WhiteSpace)

\* the outcome for the text chosen: its decoded brace cut, or an error
OutcomeFor(chosen) ==
    LET cut == FirstToLastBrace(chosen)
    IN  /\ Decodes(cut) => (~parsing.result.thrown /\ parsing.result.value = Decoded(cut))
        /\ ~Decodes(cut) => parsing.result.thrown

\* C24 as stated: parseJSONResponse decodes the text inside the first fence
\* labelled json when the reply has one, otherwise the text inside the first
\* fence of any kind, otherwise the raw reply, in each case cut from the
\* first '{' to the last '}'; an empty or absent reply and a reply with no
\* decodable JSON raise an error.
C24_PrefersJsonFenceThenAnyFence ==
    Parsed =>
        LET text == parsing.text IN
        IF ~text.defined \/ text.s = <<>> THEN parsing.result.thrown
        ELSE IF ClosedAt(text.s, FenceJson) # {}
             THEN OutcomeFor(InsideFirst(text.s, FenceJson))
        ELSE IF ClosedAt(text.s, Fence) # {}
             THEN OutcomeFor(InsideFirst(text.s, Fence))
        ELSE OutcomeFor(text.s)

\* C24 amended: the text decoded is the one inside the first fence labelled
\* json when the reply has one; the text inside the first fence of any kind
\* when the reply holds no FENCE-json marker at all; otherwise (no closed
\* fence, or a FENCE-json marker that is never closed) the raw reply; in each
\* case cut from the first '{' to the last '}'; an empty or absent reply and
\* a reply with no decodable JSON raise an error.
C24_UnclosedJsonFenceMeansRawReply ==
    Parsed =>
        LET text == parsing.text IN
        IF ~text.defined \/ text.s = <<>> THEN parsing.result.thrown
        ELSE IF ClosedAt(text.s, FenceJson) # {}
             THEN OutcomeFor(InsideFirst(text.s, FenceJson))
        ELSE IF Occurrences(text.s, FenceJson) = {} /\ ClosedAt(text.s, Fence) # {}
             THEN OutcomeFor(InsideFirst(text.s, Fence))
        ELSE OutcomeFor(text.s)

\* the example of the spec: commentary, then a fence labelled json that
\* holds the object, decoded to that object
C24_Witness ==
    /\ Parsed
    /\ parsing.text = Text(<<"t", "FENCE", "json", "\n", "{", "c", "}", "FENCE">>)
    /\ parsing.result = Returned(<<"{", "c", "}">>)

====
